---- MODULE Spec2Model ----
(***************************************************************************)
(* Model of sms_backup_dump.py (class SMSdumper): the two XML readers, the *)
(* MMS part extractor, the per-contact timeline merge, the chart series,   *)
(* the HTML renderer and the filename sanitizer.                           *)
(*                                                                         *)
(* Representation.                                                         *)
(*  - A string that reaches a file name (number, address, contact_name,    *)
(*    seq, cl, paths) is a sequence of one-character strings, so that the  *)
(*    sanitizer filters it character by character.  Other attribute values *)
(*    (type, body, ct, ...) are TLA+ strings.                              *)
(*  - An element's attrib is a record: an absent attribute is an absent    *)
(*    field, and attrib['k'] on an absent field is Python's KeyError.      *)
(*  - The `date` attribute is epoch milliseconds in decimal notation,      *)
(*    float() accepts a fraction: <<ms, thousandths of a ms>>.             *)
(*  - A datetime is <<day, second, microsecond>> (fixed-offset local zone).*)
(*  - A Python dict is the sequence of its [k, v] items in insertion order.*)
(*  - None is <<>>, any other optional value x is <<x>>.                   *)
(***************************************************************************)
EXTENDS Integers, Sequences, FiniteSets, TLC

VARIABLES
    graph,      \* self._graph
    pc,         \* position of run(): parse_calls, parse_sms, parse_mms, write, done, aborted
    calls,      \* self.calls: name -> dict(datetime -> attrib)
    smses,      \* self.smses: name -> dict(datetime -> attrib)
    sms,        \* the loop variable `sms` of parse_sms (unbound before the first <sms>)
    log,        \* what logger.error was given, in order
    raised,     \* the exception that ended the run, None while it runs
    todo,       \* contacts run() has still to write
    out,        \* HTML files written: path -> document
    media,      \* files written under media/: path -> content
    nelem,      \* how many <call>, <sms>, <mms> elements the loops have visited
    frame       \* the locals of the latest write_contact_output call

vars == <<graph, pc, calls, smses, sms, log, raised, todo, out, media, nelem, frame>>

None == <<>>
Some(x) == <<x>>

----------------------------------------------------------------------------
(* Characters and strings                                                  *)

Alpha ==
    {"a","b","c","d","e","f","g","h","i","j","k","l","m","n","o","p","q","r",
     "s","t","u","v","w","x","y","z","A","B","C","D","E","F","G","H","I","J",
     "K","L","M","N","O","P","Q","R","S","T","U","V","W","X","Y","Z"}

Digit == {"0","1","2","3","4","5","6","7","8","9"}

Whitespace == {" "}

RECURSIVE Filter(_, _)
Filter(s, keep) ==
    IF s = <<>> THEN <<>>
    ELSE (IF Head(s) \in keep THEN <<Head(s)>> ELSE <<>>) \o Filter(Tail(s), keep)

RECURSIVE RStrip(_)
RStrip(s) ==
    IF s # <<>> /\ s[Len(s)] \in Whitespace THEN RStrip(SubSeq(s, 1, Len(s) - 1))
    ELSE s

\* faulty variant: a space is kept too
SafeChars_space == Alpha \cup Digit \cup {"-", "_", ".", " "}

SafeChars == Alpha \cup Digit \cup {"-", "_", "."}

fs_safe_name(fname) == RStrip(Filter(fname, SafeChars))

format_number(num) ==
    IF Len(num) = 10
    THEN <<"(">> \o SubSeq(num, 1, 3) \o <<")">> \o SubSeq(num, 4, 6) \o <<"-">>
         \o SubSeq(num, 7, 10)
    ELSE IF Len(num) = 11
    THEN <<num[1], "-">> \o SubSeq(num, 2, 4) \o <<"-">> \o SubSeq(num, 5, 7)
         \o <<"-">> \o SubSeq(num, 8, 11)
    ELSE IF Len(num) = 7
    THEN SubSeq(num, 1, 3) \o <<"-">> \o SubSeq(num, 4, 7)
    ELSE num

RECURSIVE Contains(_, _)
Contains(s, sub) ==
    IF Len(s) < Len(sub) THEN FALSE
    ELSE SubSeq(s, 1, Len(sub)) = sub \/ Contains(Tail(s), sub)

DigitChar(d) ==
    CASE d = 0 -> "0" [] d = 1 -> "1" [] d = 2 -> "2" [] d = 3 -> "3" [] d = 4 -> "4"
      [] d = 5 -> "5" [] d = 6 -> "6" [] d = 7 -> "7" [] d = 8 -> "8" [] d = 9 -> "9"

RECURSIVE Decimal(_)
Decimal(n) == IF n < 10 THEN <<DigitChar(n)>> ELSE Decimal(n \div 10) \o <<DigitChar(n % 10)>>

\* '%f' of float(date): the integer part, a point, six decimals (the binary
\* rounding of the float is not modelled).
FormatF(date) ==
    Decimal(date[1]) \o <<".">>
    \o <<DigitChar(date[2] \div 100), DigitChar((date[2] \div 10) % 10),
         DigitChar(date[2] % 10)>>
    \o <<"0", "0", "0">>

----------------------------------------------------------------------------
(* datetime                                                                *)

\* A datetime is <<day, second of the day, microsecond of the second>>, the
\* normalised triple Python's datetime arithmetic works on.
UsPerMs == 1000
MsPerSecond == 1000
UsPerSecond == 1000000
SecondsPerDay == 86400

\* datetime.fromtimestamp(float(date) / 1000.0)
FromTimestamp(date) ==
    <<(date[1] \div MsPerSecond) \div SecondsPerDay,
      (date[1] \div MsPerSecond) % SecondsPerDay,
      (date[1] % MsPerSecond) * UsPerMs + date[2]>>

\* dt + timedelta(microseconds=1)
PlusMicrosecond(dt) ==
    IF dt[3] + 1 < UsPerSecond THEN <<dt[1], dt[2], dt[3] + 1>>
    ELSE IF dt[2] + 1 < SecondsPerDay THEN <<dt[1], dt[2] + 1, 0>>
    ELSE <<dt[1] + 1, 0, 0>>

\* a < b on datetimes
Before(a, b) ==
    \/ a[1] < b[1]
    \/ a[1] = b[1] /\ a[2] < b[2]
    \/ a[1] = b[1] /\ a[2] = b[2] /\ a[3] < b[3]

\* dt.date(), as a day number
DateOf(dt) == dt[1]

\* dt.strftime("%a %Y-%m-%d %H:%M:%S"): the microseconds are not printed
Strftime(dt) == <<dt[1], dt[2]>>

----------------------------------------------------------------------------
(* dict, in insertion order                                                *)

Keys(d) == {d[i].k : i \in DOMAIN d}

Has(d, k) == k \in Keys(d)

Get(d, k) == d[CHOOSE i \in DOMAIN d : d[i].k = k].v

\* d[k] = v: a key already present keeps its place and takes the new value
Put(d, k, v) ==
    IF Has(d, k)
    THEN [i \in DOMAIN d |-> IF d[i].k = k THEN [k |-> k, v |-> v] ELSE d[i]]
    ELSE Append(d, [k |-> k, v |-> v])

RECURSIVE Sorted(_)
Sorted(S) ==
    IF S = {} THEN <<>>
    ELSE LET m == CHOOSE x \in S : \A y \in S : x = y \/ Before(x, y)
         IN <<m>> \o Sorted(S \ {m})

Attr(a, k) == k \in DOMAIN a

----------------------------------------------------------------------------
(* Elements of the documents                                               *)

Unbound == [tag |-> "unbound"]

\* the grouping key of an element: contact_name when present and non-empty,
\* else attrib[key] (number for a call, address for a message)
ContactKey(attrib, key) ==
    IF Attr(attrib, "contact_name") /\ attrib.contact_name # <<>>
    THEN attrib.contact_name
    ELSE attrib[key]

\* d.get(k, default)
GetOr(a, k, default) == IF Attr(a, k) THEN a[k] ELSE default

\* smses[name] after `if name not in smses: smses[name] = {}`
Touch(m, name) ==
    IF name \in DOMAIN m THEN m ELSE [n \in DOMAIN m \cup {name} |-> IF n = name THEN <<>> ELSE m[n]]

\* m[name][dt] = v
Store(m, name, dt, v) ==
    LET t == Touch(m, name) IN [t EXCEPT ![name] = Put(t[name], dt, v)]

----------------------------------------------------------------------------
(* MMS part extractor                                                      *)

InlineLimit == 200

REDACTED == [s |-> "REDACTED", len |-> 8, pad |-> 0]

MediaDir == <<"m", "e", "d", "i", "a", "/">>

\* len(b64decode(data)) of a well-formed payload of data.len characters
\* ending in data.pad '=' signs
DecodedLen(data) == 3 * (data.len \div 4) - data.pad

\* '%s_%f_%s_%s' % (name, float_ts, seq, orig_fname)
DataFileName(name, date, seq, orig_fname) ==
    name \o <<"_">> \o FormatF(date) \o <<"_">> \o seq \o <<"_">> \o orig_fname

\* the relative path write_mms_data_file returns
DataFilePath(name, date, seq, orig_fname) ==
    MediaDir \o fs_safe_name(DataFileName(name, date, seq, orig_fname))

\* the file write_mms_data_file writes: the decoded payload
DataFile(data) == [kind |-> "mms_data", s |-> data.s, size |-> DecodedLen(data)]

\* faulty variant: the threshold is applied to the decoded payload
Extracted_decoded(attrib) == Attr(attrib, "data") /\ DecodedLen(attrib.data) > InlineLimit

\* whether the part's payload goes to a file
Extracted(attrib) == Attr(attrib, "data") /\ attrib.data.len > InlineLimit

\* one iteration of the loop of parse_mms_parts: the dict `foo` of a part
PartDict(attrib, name, date) ==
    IF Extracted(attrib)
    THEN [x \in DOMAIN attrib \cup {"data_file_path"} |->
            IF x = "data" THEN REDACTED
            ELSE IF x = "data_file_path"
                 THEN DataFilePath(name, date, attrib.seq, attrib.cl)
                 ELSE attrib[x]]
    ELSE attrib

\* whether the iteration raises KeyError: part.attrib['seq'], part.attrib['cl']
PartRaises(attrib) ==
    \/ ~Attr(attrib, "seq")
    \/ Extracted(attrib) /\ ~Attr(attrib, "cl")

\* parse_mms_parts(mms, name, float_ts) from part i on: the parts list, the
\* files written, and whether a part raised
RECURSIVE parse_mms_parts(_, _, _, _, _)
parse_mms_parts(parts, name, date, i, acc) ==
    IF i > Len(parts) THEN acc
    ELSE IF PartRaises(parts[i]) THEN [acc EXCEPT !.ok = FALSE]
    ELSE parse_mms_parts(parts, name, date, i + 1,
            [ok |-> TRUE,
             parts |-> Append(acc.parts, PartDict(parts[i], name, date)),
             files |-> IF Extracted(parts[i])
                       THEN Append(acc.files,
                                [path |-> DataFilePath(name, date, parts[i].seq, parts[i].cl),
                                 content |-> DataFile(parts[i].data)])
                       ELSE acc.files])

RECURSIVE WriteFiles(_, _)
WriteFiles(fs, files) ==
    IF files = <<>> THEN fs
    ELSE LET f == Head(files)
         IN WriteFiles([p \in DOMAIN fs \cup {f.path} |->
                           IF p = f.path THEN f.content ELSE fs[p]],
                       Tail(files))

----------------------------------------------------------------------------
(* The readers                                                             *)

\* the loop reaches one more element of the document
Visit(tag) == nelem' = [nelem EXCEPT ![tag] = @ + 1]

KeyError(elem) == Some([type |-> "KeyError", elem |-> elem])
NameError(elem) == Some([type |-> "NameError", elem |-> elem])

\* one iteration of the loop of parse_calls; nothing catches its KeyError
ParseCall(call) ==
    /\ pc = "parse_calls"
    /\ Visit("call")
    /\ IF Attr(call.attrib, "number") /\ Attr(call.attrib, "date")
       THEN /\ calls' = Store(calls, ContactKey(call.attrib, "number"),
                              FromTimestamp(call.attrib.date), call.attrib)
            /\ UNCHANGED <<pc, raised>>
       ELSE /\ calls' = IF Attr(call.attrib, "number")
                        THEN Touch(calls, ContactKey(call.attrib, "number"))
                        ELSE calls
            /\ pc' = "aborted"
            /\ raised' = KeyError(call)
    /\ UNCHANGED <<graph, smses, sms, log, todo, out, media, frame>>

\* run(): parse_calls returned (or calls_path is None), the media directory
\* is made, parse_sms starts
EndCalls ==
    /\ pc = "parse_calls"
    /\ pc' = "parse_sms"
    /\ UNCHANGED <<graph, calls, smses, sms, log, raised, todo, out, media, nelem, frame>>

\* one iteration of the first loop of parse_sms
ParseSms(elem) ==
    /\ pc = "parse_sms"
    /\ Visit("sms")
    /\ sms' = elem
    /\ IF Attr(elem.attrib, "address") /\ Attr(elem.attrib, "date")
       THEN /\ smses' = Store(smses, ContactKey(elem.attrib, "address"),
                              FromTimestamp(elem.attrib.date), elem.attrib)
            /\ UNCHANGED <<pc, raised, log>>
       ELSE /\ smses' = IF Attr(elem.attrib, "address")
                        THEN Touch(smses, ContactKey(elem.attrib, "address"))
                        ELSE smses
            /\ log' = Append(log, elem)
            /\ pc' = "aborted"
            /\ raised' = KeyError(elem)
    /\ UNCHANGED <<graph, calls, todo, out, media, frame>>

EndSms ==
    /\ pc = "parse_sms"
    /\ pc' = "parse_mms"
    /\ UNCHANGED <<graph, calls, smses, sms, log, raised, todo, out, media, nelem, frame>>

\* the except clause of the second loop: logger.error(..., etree.tostring(sms))
\* names `sms`, the variable of the first loop
MmsFailed(mms) ==
    /\ pc' = "aborted"
    /\ IF sms = Unbound
       THEN /\ raised' = NameError(mms)
            /\ UNCHANGED log
       ELSE /\ raised' = KeyError(mms)
            /\ log' = Append(log, sms)

\* one iteration of the second loop of parse_sms
ParseMms(mms) ==
    /\ pc = "parse_mms"
    /\ Visit("mms")
    /\ IF ~Attr(mms.attrib, "address")
       THEN MmsFailed(mms) /\ UNCHANGED <<smses, media>>
       ELSE LET name == ContactKey(mms.attrib, "address") IN
            IF ~Attr(mms.attrib, "date")
            THEN MmsFailed(mms) /\ smses' = Touch(smses, name) /\ UNCHANGED media
            ELSE LET date == mms.attrib.date
                     r == parse_mms_parts(mms.parts, name, date, 1,
                              [ok |-> TRUE, parts |-> <<>>, files |-> <<>>])
                     a1 == IF Len(r.parts) > 0
                           THEN [x \in DOMAIN mms.attrib \cup {"mms_parts"} |->
                                   IF x = "mms_parts" THEN r.parts ELSE mms.attrib[x]]
                           ELSE mms.attrib
                     a2 == IF Len(mms.addrs) > 0
                           THEN [x \in DOMAIN a1 \cup {"mms_addresses"} |->
                                   IF x = "mms_addresses" THEN mms.addrs ELSE a1[x]]
                           ELSE a1
                 IN /\ media' = WriteFiles(media, r.files)
                    /\ IF r.ok
                       THEN /\ smses' = Store(smses, name, FromTimestamp(date), a2)
                            /\ UNCHANGED <<pc, raised, log>>
                       ELSE /\ smses' = Touch(smses, name)
                            /\ MmsFailed(mms)
    /\ UNCHANGED <<graph, calls, sms, todo, out, frame>>

\* run(): parse_sms returned; the contacts to write are the keys of both maps
EndMms ==
    /\ pc = "parse_mms"
    /\ pc' = "write"
    /\ todo' = DOMAIN calls \cup DOMAIN smses
    /\ UNCHANGED <<graph, calls, smses, sms, log, raised, out, media, nelem, frame>>

----------------------------------------------------------------------------
(* Timeline merge                                                          *)

\* data['_record_type'] = rtype
Tagged(data, rtype) ==
    [x \in DOMAIN data \cup {"_record_type"} |->
        IF x = "_record_type" THEN rtype ELSE data[x]]

\* while dt in c_data: dt = dt + timedelta(microseconds=1)
RECURSIVE Advance(_, _)
Advance(c, dt) == IF Has(c, dt) THEN Advance(c, PlusMicrosecond(dt)) ELSE dt

\* the two for loops of write_contact_output over d.items(), from item i on;
\* acc is [c_data, sms_datetimes]
RECURSIVE MergeItems(_, _, _, _)
MergeItems(acc, items, i, rtype) ==
    IF i > Len(items) THEN acc
    ELSE LET data == Tagged(items[i].v, rtype)
             dt == Advance(acc.c_data, items[i].k)
         IN MergeItems(
                [c_data |-> Put(acc.c_data, dt, data),
                 sms_datetimes |->
                    IF rtype = "sms" /\ GetOr(data, "type", "") = "1"
                    THEN Append(acc.sms_datetimes, dt)
                    ELSE acc.sms_datetimes],
                items, i + 1, rtype)

Merge(name) ==
    LET c == IF name \in DOMAIN calls
             THEN MergeItems([c_data |-> <<>>, sms_datetimes |-> <<>>],
                             calls[name], 1, "call")
             ELSE [c_data |-> <<>>, sms_datetimes |-> <<>>]
    IN IF name \in DOMAIN smses THEN MergeItems(c, smses[name], 1, "sms") ELSE c

----------------------------------------------------------------------------
(* Chart series                                                            *)

Png == <<".", "p", "n", "g">>
Html == <<".", "h", "t", "m", "l">>

\* the first loop of graph_contact_sms: buckets, a map from day to count,
\* from timestamp i on
RECURSIVE Buckets(_, _, _)
Buckets(sms_datetimes, i, buckets) ==
    IF i > Len(sms_datetimes) THEN buckets
    ELSE LET d == DateOf(sms_datetimes[i])
         IN Buckets(sms_datetimes, i + 1,
                IF d \notin DOMAIN buckets
                THEN [x \in DOMAIN buckets \cup {d} |-> IF x = d THEN 1 ELSE buckets[x]]
                ELSE [buckets EXCEPT ![d] = @ + 1])

\* min(buckets.keys()), max(buckets.keys())
MinKey(buckets) == CHOOSE x \in DOMAIN buckets : \A y \in DOMAIN buckets : x <= y
MaxKey(buckets) == CHOOSE x \in DOMAIN buckets : \A y \in DOMAIN buckets : y <= x

\* faulty variant: a day without a bucket gets no bar
RECURSIVE Series_nofill(_, _, _)
Series_nofill(buckets, min_dt, acc) ==
    IF min_dt <= MaxKey(buckets)
    THEN Series_nofill(buckets, min_dt + 1,
            IF min_dt \notin DOMAIN buckets THEN acc
            ELSE [xitems |-> Append(acc.xitems, min_dt),
                  yitems |-> Append(acc.yitems, buckets[min_dt])])
    ELSE acc

\* the while loop of graph_contact_sms: min_dt runs from the first bucket
\* to the last, a day at a time
RECURSIVE Series(_, _, _)
Series(buckets, min_dt, acc) ==
    IF min_dt <= MaxKey(buckets)
    THEN Series(buckets, min_dt + 1,
            [xitems |-> Append(acc.xitems, min_dt),
             yitems |-> Append(acc.yitems,
                           IF min_dt \notin DOMAIN buckets THEN 0
                           ELSE buckets[min_dt])])
    ELSE acc

\* graph_contact_sms: None, or the file written under media/
graph_contact_sms(contact_name, sms_datetimes) ==
    IF Len(sms_datetimes) = 0 THEN None
    ELSE LET buckets == Buckets(sms_datetimes, 1, [x \in {} |-> 0])
             s == Series(buckets, MinKey(buckets), [xitems |-> <<>>, yitems |-> <<>>])
         IN Some([fname |-> fs_safe_name(contact_name \o Png),
                  content |-> [kind |-> "chart", title |-> contact_name,
                               xitems |-> s.xitems, yitems |-> s.yitems]])

----------------------------------------------------------------------------
(* HTML renderer                                                           *)

Ok(v) == [ok |-> TRUE, val |-> v]
Raise(elem) == [ok |-> FALSE, val |-> elem]

\* CALL_TYPES.get(t, 'Unknown call type %s from' % t)
CallType(t) ==
    CASE t = "1" -> [text |-> "Incoming call from"]
      [] t = "2" -> [text |-> "Outgoing call to"]
      [] t = "3" -> [text |-> "Missed call from"]
      [] t = "4" -> [text |-> "Voicemail from"]
      [] t = "5" -> [text |-> "Rejected call from"]
      [] t = "6" -> [text |-> "Refused List call from"]
      [] OTHER -> [text |-> "Unknown call type %s from", arg |-> t]

\* SMS_TYPES.get(t, unknown % t)
SmsType(t, unknown) ==
    CASE t = "1" -> [text |-> "Received from"]
      [] t = "2" -> [text |-> "Sent to"]
      [] t = "3" -> [text |-> "Draft to"]
      [] OTHER -> [text |-> unknown, arg |-> t]

format_call(data) ==
    IF ~Attr(data, "type") \/ ~Attr(data, "duration") \/ ~Attr(data, "number")
    THEN Raise(data)
    ELSE Ok([kind |-> "call",
             class |-> IF data.type # "2" THEN "incoming" ELSE "outgoing",
             label |-> CallType(data.type),
             number |-> format_number(data.number),
             duration |-> data.duration])

format_sms(data) ==
    LET type == GetOr(data, "type", "unknown")
    IN IF ~Attr(data, "address") \/ ~Attr(data, "body")
       THEN Raise(data)
       ELSE Ok([kind |-> "sms",
                class |-> IF type = "1" THEN "incoming" ELSE "outgoing",
                label |-> SmsType(type, "Unknown SMS type %s"),
                number |-> format_number(data.address),
                body |-> data.body])

Unknown == <<"u", "n", "k", "n", "o", "w", "n">>

\* for addr in data['mms_addresses']: if addr['type'] == '137': from_addr = ...
RECURSIVE FromAddr(_, _, _)
FromAddr(addrs, i, from_addr) ==
    IF i > Len(addrs) THEN Ok(from_addr)
    ELSE IF ~Attr(addrs[i], "type") THEN Raise(addrs[i])
    ELSE IF addrs[i].type = "137"
         THEN IF Attr(addrs[i], "address")
              THEN FromAddr(addrs, i + 1, addrs[i].address)
              ELSE Raise(addrs[i])
         ELSE FromAddr(addrs, i + 1, from_addr)

IsImage(ct) == ct \in {"image/jpeg", "image/png", "image/gif"}

\* for part in data['mms_parts']: what each part appends
RECURSIVE FormatParts(_, _, _)
FormatParts(parts, i, acc) ==
    IF i > Len(parts) THEN Ok(acc)
    ELSE LET part == parts[i] IN
         IF ~Attr(part, "ct") THEN Raise(part)
         ELSE IF part.ct = "application/smil" THEN FormatParts(parts, i + 1, acc)
         ELSE IF part.ct = "text/plain"
              THEN IF Attr(part, "text")
                   THEN FormatParts(parts, i + 1,
                            Append(acc, [kind |-> "text", text |-> part.text]))
                   ELSE Raise(part)
         ELSE IF IsImage(part.ct)
              THEN IF Attr(part, "data_file_path")
                   THEN FormatParts(parts, i + 1,
                            Append(acc, [kind |-> "img", href |-> part.data_file_path]))
                   ELSE Raise(part)
         ELSE FormatParts(parts, i + 1,
                  Append(acc,
                      IF Attr(part, "data_file_path")
                      THEN [kind |-> "unsupported", ct |-> part.ct,
                            href |-> part.data_file_path]
                      ELSE [kind |-> "unsupported", ct |-> part.ct]))

format_mms(data) ==
    IF ~Attr(data, "msg_box") \/ ~Attr(data, "mms_addresses") THEN Raise(data)
    ELSE LET from == FromAddr(data.mms_addresses, 1, Unknown)
             parts == FormatParts(data.mms_parts, 1, <<>>)
         IN IF ~from.ok THEN Raise(data)
            ELSE IF ~parts.ok THEN Raise(data)
            ELSE Ok([kind |-> "mms",
                     class |-> IF data.msg_box = "1" THEN "incoming" ELSE "outgoing",
                     label |-> SmsType(data.msg_box, "Unknown MMS msg_box %s"),
                     from |-> format_number(from.val),
                     parts |-> parts.val])

\* faulty variant: the handler adds what it caught
SmsBody_caught(data) == Some(format_sms(data).val)

\* the try/except around format_sms: what `s += self.format_sms(data)` adds
SmsBody(data) ==
    LET r == format_sms(data) IN IF r.ok THEN Some(r.val) ELSE None

\* format_record: '<p>', the date stamp, the body, '</p>'
format_record(dt, data) ==
    IF data._record_type = "call"
    THEN LET r == format_call(data)
         IN IF r.ok THEN Ok([dt |-> dt, stamp |-> Strftime(dt), body |-> Some(r.val)])
            ELSE r
    ELSE IF Attr(data, "mms_parts")
    THEN LET r == format_mms(data)
         IN IF r.ok THEN Ok([dt |-> dt, stamp |-> Strftime(dt), body |-> Some(r.val)])
            ELSE r
    ELSE Ok([dt |-> dt, stamp |-> Strftime(dt), body |-> SmsBody(data)])

\* faulty variant: the keys in insertion order
SortedKeys_unsorted(contact_data) == [i \in DOMAIN contact_data |-> contact_data[i].k]

\* sorted(contact_data.keys())
SortedKeys(contact_data) == Sorted(Keys(contact_data))

\* the loop of contact_html from key i on
RECURSIVE Paragraphs(_, _, _, _)
Paragraphs(contact_data, keys, i, acc) ==
    IF i > Len(keys) THEN Ok(acc)
    ELSE LET r == format_record(keys[i], Get(contact_data, keys[i]))
         IN IF r.ok THEN Paragraphs(contact_data, keys, i + 1, Append(acc, r.val))
            ELSE r

\* the chart block of contact_html
ChartImg(sms_graph_path) ==
    IF sms_graph_path # None THEN Some(MediaDir \o sms_graph_path[1]) ELSE None

contact_html(name, contact_data, sms_graph_path) ==
    LET r == Paragraphs(contact_data, SortedKeys(contact_data), 1, <<>>)
    IN IF r.ok
       THEN Ok([title |-> name, img |-> ChartImg(sms_graph_path), paragraphs |-> r.val])
       ELSE r

----------------------------------------------------------------------------
(* write_contact_output and the end of run()                               *)

\* faulty variant: the chart is drawn whether or not charting is on
GraphFile_always(name, sms_datetimes) ==
    IF name \in DOMAIN smses THEN graph_contact_sms(name, sms_datetimes) ELSE None

\* graph_fname of write_contact_output
GraphFile(name, sms_datetimes) ==
    IF name \in DOMAIN smses /\ graph
    THEN graph_contact_sms(name, sms_datetimes)
    ELSE None

WriteContactOutput(name) ==
    /\ pc = "write"
    /\ name \in todo
    /\ LET m == Merge(name)
           g == GraphFile(name, m.sms_datetimes)
           graph_fname == IF g = None THEN None ELSE Some(g[1].fname)
           html == contact_html(name, m.c_data, graph_fname)
       IN /\ frame' = [name |-> name, c_data |-> m.c_data,
                       sms_datetimes |-> m.sms_datetimes, graph_fname |-> graph_fname]
          /\ media' = IF g = None THEN media
                      ELSE WriteFiles(media, <<[path |-> MediaDir \o g[1].fname,
                                                content |-> g[1].content]>>)
          /\ IF html.ok
             THEN /\ out' = WriteFiles(out, <<[path |-> fs_safe_name(name \o Html),
                                               content |-> html.val]>>)
                  /\ todo' = todo \ {name}
                  /\ UNCHANGED <<pc, raised>>
             ELSE /\ pc' = "aborted"
                  /\ raised' = KeyError(html.val)
                  /\ UNCHANGED <<out, todo>>
    /\ UNCHANGED <<graph, calls, smses, sms, log, nelem>>

Finish ==
    /\ pc = "write"
    /\ todo = {}
    /\ pc' = "done"
    /\ UNCHANGED <<graph, calls, smses, sms, log, raised, todo, out, media, nelem, frame>>

NoFrame == [name |-> <<>>, c_data |-> <<>>, sms_datetimes |-> <<>>, graph_fname |-> None]

EmptyMap == [x \in {} |-> x]

Init ==
    /\ graph \in BOOLEAN
    /\ pc = "parse_calls"
    /\ calls = EmptyMap
    /\ smses = EmptyMap
    /\ sms = Unbound
    /\ log = <<>>
    /\ raised = None
    /\ todo = {}
    /\ out = EmptyMap
    /\ media = EmptyMap
    /\ nelem = [call |-> 0, sms |-> 0, mms |-> 0]
    /\ frame = NoFrame

----------------------------------------------------------------------------
(* The documents the model reads                                           *)

\* attrib with one more attribute, when it is given
With(attrib, k, opt) ==
    IF opt = None THEN attrib
    ELSE [x \in DOMAIN attrib \cup {k} |-> IF x = k THEN opt[1] ELSE attrib[x]]

Number == <<"5", "5", "5", "1", "2", "3", "4">>

John == <<"J","o","h","n"," ","O","'","B","r","i","e","n","!"," ","(","m","o","b","i","l","e",")">>

Mms(attrib, parts, addrs) == [tag |-> "mms", attrib |-> attrib, parts |-> parts, addrs |-> addrs]

TextPart == [seq |-> <<"0">>, ct |-> "text/plain", text |-> "hello"]

From137 == [address |-> Number, type |-> "137"]

ReadCalls(E, max) == \E call \in E : nelem.call < max /\ ParseCall(call)
ReadSms(E, max) == \E elem \in E : nelem.sms < max /\ ParseSms(elem)
ReadMms(E, max) == \E mms \in E : nelem.mms < max /\ ParseMms(mms)
Write == \E name \in todo : WriteContactOutput(name)

----------------------------------------------------------------------------
(* Spec: calls and messages of two contacts at instants one microsecond    *)
(* apart, all well formed                                                  *)

\* how many elements of each kind a document holds at most
MaxCalls == 1
MaxSms == 2
MaxMms == 1

T0 == <<1000, 0>>
T1 == <<1000, 1>>

ContactNames == {None, Some(John)}

CallElems ==
    {[tag |-> "call",
      attrib |-> With([number |-> Number, date |-> T0, type |-> t, duration |-> 60],
                      "contact_name", cn)] :
        t \in {"1", "2"}, cn \in ContactNames}

SmsElems ==
    {[tag |-> "sms",
      attrib |-> With([address |-> Number, date |-> d, type |-> t, body |-> "hi"],
                      "contact_name", cn)] :
        d \in {T0, T1}, t \in {"1", "2"}, cn \in ContactNames}

MmsElems == {Mms([address |-> Number, date |-> T0, msg_box |-> "1"], <<TextPart>>, <<From137>>)}

Next ==
    \/ ReadCalls(CallElems, MaxCalls)
    \/ EndCalls
    \/ ReadSms(SmsElems, MaxSms)
    \/ EndSms
    \/ ReadMms(MmsElems, MaxMms)
    \/ EndMms
    \/ Write
    \/ Finish

Spec == Init /\ [][Next]_vars

----------------------------------------------------------------------------
(* Properties of the timeline (Spec)                                       *)

\* the timestamp a timeline entry had in the document
Original(item) == FromTimestamp(item.v.date)

\* the contact write_contact_output was last called for has its page
Written == frame.name # <<>> /\ fs_safe_name(frame.name \o Html) \in DOMAIN out

Page == out[fs_safe_name(frame.name \o Html)]

Adjusted == {i \in DOMAIN frame.c_data : frame.c_data[i].k # Original(frame.c_data[i])}

\* C1: in every page written, the paragraphs are in strictly ascending order
\* of their entries' (possibly adjusted) timestamps, so no two entries share
\* one, and the page of the latest contact has exactly one paragraph for each
\* key of its c_data.
C1_TimelineStrictlyAscending ==
    /\ \A p \in DOMAIN out :
         \A i, j \in DOMAIN out[p].paragraphs :
            i < j => Before(out[p].paragraphs[i].dt, out[p].paragraphs[j].dt)
    /\ Written =>
         /\ Len(Page.paragraphs) = Len(frame.c_data)
         /\ {Page.paragraphs[i].dt : i \in DOMAIN Page.paragraphs} = Keys(frame.c_data)

\* a page of three paragraphs: a call and two messages, both messages at
\* adjusted timestamps
C1_Witness ==
    /\ Written
    /\ Len(Page.paragraphs) >= 3
    /\ Cardinality(Adjusted) >= 2

\* every record of map m is a record of map m2
Kept(m, m2) ==
    \A n \in DOMAIN m :
        /\ n \in DOMAIN m2
        /\ \A i \in DOMAIN m[n] : \E j \in DOMAIN m2[n] : m2[n][j].v = m[n][i].v

\* an entry moved from its original timestamp moved forward, in steps of one
\* microsecond over instants that entries inserted before it occupy
RECURSIVE ShiftedOver(_, _, _)
ShiftedOver(i, from, to) ==
    IF from = to THEN TRUE
    ELSE /\ Before(from, to)
         /\ \E j \in 1 .. (i - 1) : frame.c_data[j].k = from
         /\ ShiftedOver(i, PlusMicrosecond(from), to)

\* the timeline of the latest contact holds every record the maps hold for
\* it, each one at its original timestamp or shifted as ShiftedOver says
TimelineComplete ==
    /\ frame.name # <<>> =>
          Len(frame.c_data) =
              (IF frame.name \in DOMAIN calls THEN Len(calls[frame.name]) ELSE 0)
              + (IF frame.name \in DOMAIN smses THEN Len(smses[frame.name]) ELSE 0)
    /\ \A i \in DOMAIN frame.c_data :
          ShiftedOver(i, Original(frame.c_data[i]), frame.c_data[i].k)

\* C2: records of one contact with identical original timestamps all end up
\* in its timeline: reading a record never drops one read before it from the
\* maps, and the timeline holds every record of the maps, the one inserted
\* first at the original timestamp, a later one one microsecond further, or
\* more while that instant is taken too.
C2_CollidingRecordsBothInTimeline ==
    /\ [][Kept(calls, calls') /\ Kept(smses, smses')]_vars
    /\ []TimelineComplete

\* C10: the page shows the records in the order of their original timestamps,
\* and a record whose original timestamp no other record has keeps it.
C10_OriginalOrderPreserved ==
    /\ \A i, j \in DOMAIN frame.c_data :
         Before(Original(frame.c_data[i]), Original(frame.c_data[j]))
            => Before(frame.c_data[i].k, frame.c_data[j].k)
    /\ \A i \in DOMAIN frame.c_data :
         (\A j \in DOMAIN frame.c_data \ {i} :
             Original(frame.c_data[j]) # Original(frame.c_data[i]))
            => frame.c_data[i].k = Original(frame.c_data[i])

\* the items of smses[name] that write_contact_output collects for the chart
Received(name) ==
    IF name \in DOMAIN smses
    THEN {i \in DOMAIN smses[name] : GetOr(smses[name][i].v, "type", "") = "1"}
    ELSE {}

\* C6: a contact without received messages gets no chart file and no chart
\* <img> in its page, with charting on or off; the page has a chart <img>
\* exactly when charting is on and the contact has a received message.
C6_NoChartWithoutReceived ==
    Written =>
        /\ Received(frame.name) = {} =>
              /\ frame.graph_fname = None
              /\ Page.img = None
              /\ MediaDir \o fs_safe_name(frame.name \o Png) \notin DOMAIN media
        /\ Page.img # None <=> (graph /\ Received(frame.name) # {})
        /\ Page.img # None =>
              /\ Page.img = Some(MediaDir \o fs_safe_name(frame.name \o Png))
              /\ Page.img[1] \in DOMAIN media

\* charting is on and graph_contact_sms was given the empty list of a contact
\* that has messages, none of them received
C6_Witness ==
    /\ Written
    /\ graph
    /\ frame.name \in DOMAIN smses
    /\ Len(smses[frame.name]) >= 2
    /\ Received(frame.name) = {}
    /\ Page.img = None

----------------------------------------------------------------------------
(* SpecChart: the messages of one contact over three days, no calls        *)

MaxChartSms == 3

MsPerDay == MsPerSecond * SecondsPerDay

ChartDates == {<<0, 0>>, <<500, 0>>, <<MsPerDay, 0>>, <<2 * MsPerDay, 0>>}

ChartSms ==
    {[tag |-> "sms",
      attrib |-> [address |-> Number, date |-> d, type |-> t, body |-> "hi"]] :
        d \in ChartDates, t \in {"1", "2"}}

NextChart ==
    \/ EndCalls
    \/ ReadSms(ChartSms, MaxChartSms)
    \/ EndSms
    \/ EndMms
    \/ Write
    \/ Finish

SpecChart == Init /\ [][NextChart]_vars

\* the chart written for the latest contact
Chart == media[MediaDir \o frame.graph_fname[1]]

ChartDays == {DateOf(frame.sms_datetimes[i]) : i \in DOMAIN frame.sms_datetimes}

FirstDay == CHOOSE x \in ChartDays : \A y \in ChartDays : x <= y
LastDay == CHOOSE x \in ChartDays : \A y \in ChartDays : y <= x

\* C5: for a non-empty list of received-message timestamps the series has
\* one entry for each day from the earliest to the latest day with a message,
\* consecutive, and each count is the number of timestamps of that day (two
\* on the first day and one on the third give [2, 0, 1]).
C5_SeriesCoversEveryDay ==
    frame.sms_datetimes # <<>> /\ graph =>
        /\ frame.graph_fname # None
        /\ MediaDir \o frame.graph_fname[1] \in DOMAIN media
        /\ Len(Chart.xitems) = LastDay - FirstDay + 1
        /\ Len(Chart.yitems) = Len(Chart.xitems)
        /\ \A i \in DOMAIN Chart.xitems :
              /\ Chart.xitems[i] = FirstDay + i - 1
              /\ Chart.yitems[i] =
                    Cardinality({j \in DOMAIN frame.sms_datetimes :
                                    DateOf(frame.sms_datetimes[j]) = Chart.xitems[i]})

\* two received messages on day 0, none on day 1, one on day 2
C5_Witness ==
    /\ graph
    /\ Len(frame.sms_datetimes) = 3
    /\ frame.graph_fname # None
    /\ Chart.xitems = <<0, 1, 2>>
    /\ Chart.yitems = <<2, 0, 1>>

----------------------------------------------------------------------------
(* SpecMms: documents of <mms> elements only.  One class of them varies    *)
(* the payload and the file name of a part, the other the <addr> children. *)

MaxParts == 2

\* base64 payloads of 200, 204 and 272 characters: they decode to 150, 153
\* and 204 bytes
P200 == [s |-> "p200", len |-> 200, pad |-> 0]

P204 == [s |-> "p204", len |-> 204, pad |-> 0]

P272 == [s |-> "p272", len |-> 272, pad |-> 0]

Payloads == {P200, P204, P272}

\* parts with a payload of each length and a file name, and one with a long
\* payload and no file name
DataParts ==
    {[seq |-> <<"0">>, ct |-> "application/pdf", data |-> P200,
      cl |-> <<"a", " ", "b", ".", "j", "p", "g">>],
     [seq |-> <<"0">>, ct |-> "application/pdf", data |-> P204,
      cl |-> <<"a", " ", "b", ".", "j", "p", "g">>],
     [seq |-> <<"0">>, ct |-> "application/pdf", data |-> P272,
      cl |-> <<"a", " ", "b", ".", "j", "p", "g">>],
     [seq |-> <<"0">>, ct |-> "application/pdf", data |-> P272,
      cl |-> <<"R", "E", "D", "A", "C", "T", "E", "D", ".", "j", "p", "g">>],
     [seq |-> <<"0">>, ct |-> "application/pdf", data |-> P272]}

ImagePart ==
    [seq |-> <<"1">>, ct |-> "image/jpeg", cl |-> <<"a", " ", "b", ".", "j", "p", "g">>,
     data |-> P272]

To151 == [address |-> Number, type |-> "151"]

RECURSIVE SeqsUpTo(_, _)
SeqsUpTo(S, n) ==
    IF n = 0 THEN {<<>>}
    ELSE LET shorter == SeqsUpTo(S, n - 1)
         IN shorter \cup {Append(q, x) : q \in shorter, x \in S}

MmsAttrib == [address |-> Number, date |-> T0, msg_box |-> "1"]

PartsMms ==
    {Mms(MmsAttrib, parts, <<From137>>) : parts \in SeqsUpTo(DataParts, MaxParts)}

AddrsMms ==
    {Mms(MmsAttrib, parts, addrs) :
        parts \in {<<TextPart>>, <<TextPart, ImagePart>>},
        addrs \in {<<>>, <<To151>>, <<From137>>, <<To151, From137>>}}

NextMms ==
    \/ EndCalls
    \/ EndSms
    \/ ReadMms(PartsMms \cup AddrsMms, MaxMms)
    \/ EndMms
    \/ Write
    \/ Finish

SpecMms == Init /\ [][NextMms]_vars

\* the part dicts of the MMS records read
StoredParts ==
    UNION {UNION {IF Attr(smses[n][i].v, "mms_parts")
                  THEN {smses[n][i].v.mms_parts[j] : j \in DOMAIN smses[n][i].v.mms_parts}
                  ELSE {} : i \in DOMAIN smses[n]} : n \in DOMAIN smses}

StartsWith(s, prefix) == Len(s) >= Len(prefix) /\ SubSeq(s, 1, Len(prefix)) = prefix

RedactedChars == <<"R", "E", "D", "A", "C", "T", "E", "D">>

\* C3 as the specification states it: a part whose payload decodes to at most
\* 200 characters is kept inline, one whose payload decodes to more is written
\* to a file under media/ whose path does not contain "REDACTED".
C3_DecodedLengthDecides ==
    \A foo \in StoredParts :
        IF Attr(foo, "data_file_path")
        THEN /\ foo.data_file_path \in DOMAIN media
             /\ media[foo.data_file_path].size > InlineLimit
             /\ StartsWith(foo.data_file_path, MediaDir)
             /\ ~Contains(foo.data_file_path, RedactedChars)
        ELSE Attr(foo, "data") => DecodedLen(foo.data) <= InlineLimit

\* C3, amended: the length of the data attribute as it stands in the document
\* decides.  At most 200 characters: the value stays inline, no data_file_path.
\* More: data becomes the marker, the decoded payload is in a file under
\* media/, and data_file_path is that file's path, media/ and the sanitized
\* name_timestamp_seq_filename, which contains "REDACTED" only when the
\* sanitized seq or file name of the part (or contact name) does.
C3_EncodedLengthDecides ==
    \A foo \in StoredParts :
        IF Attr(foo, "data_file_path")
        THEN /\ foo.data = REDACTED
             /\ foo.data_file_path \in DOMAIN media
             /\ \E d \in Payloads :
                   d.len > InlineLimit /\ media[foo.data_file_path] = DataFile(d)
             /\ \E n \in DOMAIN smses :
                   /\ foo.data_file_path =
                         MediaDir \o fs_safe_name(DataFileName(n, T0, foo.seq, foo.cl))
                   /\ Contains(foo.data_file_path, RedactedChars) =>
                         \/ Contains(fs_safe_name(n), RedactedChars)
                         \/ Contains(fs_safe_name(foo.seq), RedactedChars)
                         \/ Contains(fs_safe_name(foo.cl), RedactedChars)
        ELSE Attr(foo, "data") => foo.data \in Payloads /\ foo.data.len <= InlineLimit

\* a part was written to a file although its payload decodes to 200
\* characters or fewer, and a part whose payload is 200 characters long
\* stayed inline
C3_Witness ==
    /\ \E foo \in StoredParts :
          /\ Attr(foo, "data_file_path")
          /\ media[foo.data_file_path].size <= InlineLimit
    /\ \E foo \in StoredParts :
          /\ ~Attr(foo, "data_file_path")
          /\ Attr(foo, "data")
          /\ foo.data.len = InlineLimit

\* the address format_mms is to show for an MMS record
ExpectedFrom(data) ==
    LET addrs == GetOr(data, "mms_addresses", <<>>)
        from == {i \in DOMAIN addrs : addrs[i].type = "137"}
    IN IF from = {} THEN Unknown
       ELSE addrs[CHOOSE i \in from : \A j \in from : j <= i].address

MmsEntries == {i \in DOMAIN frame.c_data : Attr(frame.c_data[i].v, "mms_parts")}

\* C7: for every MMS record of a contact's timeline format_mms completes, so
\* the page is written, and its paragraph shows the address of the participant
\* of role 137, or "unknown" when the record has none.
C7_FromAddressOrUnknown ==
    MmsEntries # {} =>
        /\ raised = None
        /\ Written
        /\ \A i \in MmsEntries :
              \E p \in DOMAIN Page.paragraphs :
                 /\ Page.paragraphs[p].dt = frame.c_data[i].k
                 /\ Page.paragraphs[p].body # None
                 /\ Page.paragraphs[p].body[1].from
                       = format_number(ExpectedFrom(frame.c_data[i].v))

----------------------------------------------------------------------------
(* SpecFaulty: documents with malformed elements: a message without body,  *)
(* an <sms> and an <mms> without address, an <mms> without parts           *)

FaultyCalls ==
    {[tag |-> "call",
      attrib |-> [number |-> Number, date |-> T0, type |-> "2", duration |-> 60]]}

FaultySms ==
    {[tag |-> "sms", attrib |-> [address |-> Number, date |-> T0, type |-> "1", body |-> "hi"]],
     [tag |-> "sms", attrib |-> [address |-> Number, date |-> T1, type |-> "1"]],
     [tag |-> "sms", attrib |-> [date |-> T1, type |-> "2", body |-> "lost"]]}

FaultyMms ==
    {Mms([date |-> T0, msg_box |-> "1"], <<TextPart>>, <<From137>>),
     Mms([address |-> Number, date |-> T0, msg_box |-> "1"], <<>>, <<From137>>),
     Mms([address |-> Number, date |-> T1, msg_box |-> "1"], <<TextPart>>, <<From137>>)}

NextFaulty ==
    \/ ReadCalls(FaultyCalls, MaxCalls)
    \/ EndCalls
    \/ ReadSms(FaultySms, MaxSms)
    \/ EndSms
    \/ ReadMms(FaultyMms, MaxMms)
    \/ EndMms
    \/ Write
    \/ Finish

SpecFaulty == Init /\ [][NextFaulty]_vars

\* the branch of format_record a record takes
SmsShaped(data) == data._record_type # "call" /\ ~Attr(data, "mms_parts")

\* the SMS-shaped entries of the latest timeline whose formatting raises
Unformattable ==
    {i \in DOMAIN frame.c_data :
        SmsShaped(frame.c_data[i].v) /\ ~format_sms(frame.c_data[i].v).ok}

ParagraphsOf(i) ==
    {p \in DOMAIN Page.paragraphs : Page.paragraphs[p].dt = frame.c_data[i].k}

C9_OffendingElementLogged ==
    raised # None /\ Attr(raised[1].elem, "tag") /\ raised[1].elem.tag \in {"sms", "mms"} =>
        /\ raised[1].type = "KeyError"
        /\ log # <<>>
        /\ log[Len(log)] = raised[1].elem
        /\ out = EmptyMap

----------------------------------------------------------------------------
(* SpecNames: a document of one <sms> whose contact_name is any short      *)
(* string of letters, digits, spaces and punctuation, or John              *)

MaxNameLen == 2

NameChars == {"a", "7", " ", "'", "-", "."}

NamedSms ==
    {[tag |-> "sms",
      attrib |-> [address |-> Number, contact_name |-> cn, date |-> T0, type |-> "1",
                  body |-> "hi"]] :
        cn \in SeqsUpTo(NameChars, MaxNameLen) \cup {John}}

\* the loop over a document of a single <sms>
ReadOneSms(E) == \E elem \in E : nelem.sms = 0 /\ ParseSms(elem)

NextNames ==
    \/ EndCalls
    \/ ReadOneSms(NamedSms)
    \/ EndSms
    \/ EndMms
    \/ Write
    \/ Finish

SpecNames == Init /\ [][NextNames]_vars

JohnWithSpaces == <<"J", "o", "h", "n", " ", "O", "B", "r", "i", "e", "n", " ", "m", "o", "b", "i", "l", "e">>

JohnSafe == <<"J", "o", "h", "n", "O", "B", "r", "i", "e", "n", "m", "o", "b", "i", "l", "e">>

IsSpace(c) == c = " "

IsSafe(c) == c \in Alpha \/ c \in Digit \/ c = "-" \/ c = "_" \/ c = "."

\* the name without the characters that are neither safe nor a space, and
\* without trailing spaces
RECURSIVE SpacesKept(_)
SpacesKept(name) ==
    LET kept == SelectSeq(name, LAMBDA c : IsSafe(c) \/ IsSpace(c))
    IN IF kept # <<>> /\ IsSpace(kept[Len(kept)])
       THEN SpacesKept(SubSeq(kept, 1, Len(kept) - 1))
       ELSE kept

\* C4 as the specification states it: fs_safe_name drops apostrophes,
\* exclamation marks and parentheses, keeps the spaces inside the name and
\* strips only trailing whitespace; John O'Brien! (mobile) gives
\* John OBrien mobile.
C4_SpacesRetained ==
    frame.name # <<>> =>
        /\ fs_safe_name(frame.name) = SpacesKept(frame.name)
        /\ frame.name = John => fs_safe_name(frame.name) = JohnWithSpaces

\* C4, amended: fs_safe_name keeps the letters, the digits and - _ . in their
\* order and drops every other character, spaces included, wherever they
\* stand; John O'Brien! (mobile) gives JohnOBrienmobile, and the contact's
\* page is written to the sanitized name.html.
C4_OnlySafeCharactersKept ==
    frame.name # <<>> =>
        /\ fs_safe_name(frame.name) = SelectSeq(frame.name, IsSafe)
        /\ \A i \in DOMAIN fs_safe_name(frame.name) : ~IsSpace(fs_safe_name(frame.name)[i])
        /\ frame.name = John => fs_safe_name(frame.name) = JohnSafe
        /\ SelectSeq(frame.name, IsSafe) \o Html \in DOMAIN out

\* the page of John O'Brien! (mobile) is written
C4_Witness ==
    /\ frame.name = John
    /\ JohnSafe \o Html \in DOMAIN out
    /\ JohnWithSpaces \o Html \notin DOMAIN out

====
